---- MODULE Spec2Model ----
(***************************************************************************)
(* Model of the tariff engine of src/app.py: the helpers zone_from_km,     *)
(* bracket_and_rate and ceil_div, and the pricing function calculate.      *)
(*                                                                         *)
(* Numbers.  The program computes in binary floating point.  The model     *)
(* computes the same expressions exactly, in integers:                     *)
(*   - money is a whole number of 1/100000 dollar (Dollar units per        *)
(*     dollar), which holds every product rate * weight * percent of the   *)
(*     tariff exactly when weights, out-of-area kilometres and fuel        *)
(*     percents are whole numbers;                                         *)
(*   - a distance is a whole number of 1/KmUnit kilometre, so that         *)
(*     distances strictly between two whole kilometres exist;              *)
(*   - a fuel fraction is a whole number of hundredths (15 is 0.15).       *)
(* round(x, 2) is the one place where the binary error of a float decides  *)
(* the outcome: a value that is exactly half a cent in decimal is rounded  *)
(* up or down depending on the float nearest to it (round(0.045*1001, 2)   *)
(* is 45.05, round(0.045*1003, 2) is 45.13).  Round2 therefore yields both *)
(* neighbours at such a tie and the single nearest cent everywhere else.   *)
(***************************************************************************)
EXTENDS Integers, Sequences, FiniteSets, TLC

VARIABLES args, pc, loc, res

vars == <<args, pc, loc, res>>

-----------------------------------------------------------------------------
(* Units *)

Dollar == 100000
Cent == 1000
Mill == 100

(* Bounds of the checked input domains *)

KmUnit == 2
MaxKm == 505
MaxWeight == 4100
MaxWait == 95
MaxExtra == 2
MaxOverride == 150

-----------------------------------------------------------------------------
(* Tariff data *)

None == 0
Inf == -1

ZONES ==
  << [zone |-> 1, lo |-> 0, hi |-> 50],
     [zone |-> 2, lo |-> 51, hi |-> 150],
     [zone |-> 3, lo |-> 151, hi |-> 300],
     [zone |-> 4, lo |-> 301, hi |-> 400],
     [zone |-> 5, lo |-> 401, hi |-> 500] >>

MIN_CHARGE == << 30 * Dollar, 45 * Dollar, 60 * Dollar, 70 * Dollar, 80 * Dollar >>

RATES ==
  << [name |-> "0-500", upper |-> 500,
      zrates |-> << 64 * Mill, 120 * Mill, 167 * Mill, 224 * Mill, 261 * Mill >>],
     [name |-> "501-1000", upper |-> 1000,
      zrates |-> << 54 * Mill, 83 * Mill, 111 * Mill, 158 * Mill, 186 * Mill >>],
     [name |-> "1001-2000", upper |-> 2000,
      zrates |-> << 45 * Mill, 54 * Mill, 64 * Mill, 101 * Mill, 130 * Mill >>],
     [name |-> "2001-4000", upper |-> 4000,
      zrates |-> << 36 * Mill, 45 * Mill, 54 * Mill, 64 * Mill, 73 * Mill >>],
     [name |-> "4001+", upper |-> Inf,
      zrates |-> << 22 * Mill, 31 * Mill, 40 * Mill, 51 * Mill, 59 * Mill >>] >>

OOA_RATE ==
  [t \in {"FULL", "BACKHAUL EMPTY", "BACKHAUL FULL"} |->
     CASE t = "FULL" -> 150 * Cent
       [] t = "BACKHAUL EMPTY" -> 80 * Cent
       [] t = "BACKHAUL FULL" -> 100 * Cent]

DirectDrive == "Direct Drive (flat)"

AccessorialNames ==
  << "2 Man Service", "Tailgate (over 200 lbs)", "Inside Delivery",
     "White Glove (residential)", "Skid Handbomb (lumper)", DirectDrive >>

ACCESSORIALS ==
  [k \in {AccessorialNames[i] : i \in 1..Len(AccessorialNames)} |->
     CASE k = "2 Man Service" -> 20 * Dollar
       [] k = "Tailgate (over 200 lbs)" -> 10 * Dollar
       [] k = "Inside Delivery" -> 20 * Dollar
       [] k = "White Glove (residential)" -> 20 * Dollar
       [] k = "Skid Handbomb (lumper)" -> 40 * Dollar
       [] k = DirectDrive -> 40 * Dollar]

WAIT_RATE_HR == 45 * Dollar

FUEL_DEFAULT == 15

-----------------------------------------------------------------------------
(* Helpers *)

Max(a, b) == IF a >= b THEN a ELSE b

\* zone_from_km with < for <=: a distance on a zone's upper bound falls
\* into the next zone.
zone_from_km_strict(km) ==
  IF km < 50 * KmUnit THEN 1
  ELSE IF km < 150 * KmUnit THEN 2
  ELSE IF km < 300 * KmUnit THEN 3
  ELSE IF km < 400 * KmUnit THEN 4
  ELSE IF km < 500 * KmUnit THEN 5
  ELSE None

\* zone_from_km falling back to zone 5 beyond 500 km.
zone_from_km_fallback(km) ==
  IF km <= 50 * KmUnit THEN 1
  ELSE IF km <= 150 * KmUnit THEN 2
  ELSE IF km <= 300 * KmUnit THEN 3
  ELSE IF km <= 400 * KmUnit THEN 4
  ELSE 5

\* zone_from_km: km is a distance in 1/KmUnit kilometres.
zone_from_km(km) ==
  IF km <= 50 * KmUnit THEN 1
  ELSE IF km <= 150 * KmUnit THEN 2
  ELSE IF km <= 300 * KmUnit THEN 3
  ELSE IF km <= 400 * KmUnit THEN 4
  ELSE IF km <= 500 * KmUnit THEN 5
  ELSE None

\* The bracket test with < for <=.
LeqUpper_strict(weight_lbs, upper) == upper = Inf \/ weight_lbs < upper

\* weight_lbs <= upper, where upper may be float("inf").
LeqUpper(weight_lbs, upper) == upper = Inf \/ weight_lbs <= upper

RECURSIVE ScanRates(_, _, _)
ScanRates(i, weight_lbs, zone) ==
  IF i > Len(RATES)
    THEN [name |-> "4001+", rate |-> RATES[Len(RATES)].zrates[zone]]
    ELSE IF LeqUpper(weight_lbs, RATES[i].upper)
      THEN [name |-> RATES[i].name, rate |-> RATES[i].zrates[zone]]
      ELSE ScanRates(i + 1, weight_lbs, zone)

bracket_and_rate(weight_lbs, zone) == ScanRates(1, weight_lbs, zone)

\* Floor division in place of the ceiling.
ceil_div_floor(a, b) == a \div b

\* math.ceil(a / b) for b > 0 (\div rounds towards minus infinity).
ceil_div(a, b) == -((-a) \div b)

\* The values round(x, 2) can take: the nearest cent, either cent at a tie.
Round2(x) ==
  LET r == x % Cent
  IN  IF 2 * r < Cent THEN {x - r}
      ELSE IF 2 * r > Cent THEN {x - r + Cent}
      ELSE {x - r, x - r + Cent}

-----------------------------------------------------------------------------
(* The steps of calculate *)

\* min for max: the zone minimum as a ceiling.
BaseCharge_min(zone, rate_per_lb, weight_lbs) ==
  IF MIN_CHARGE[zone] <= rate_per_lb * weight_lbs
    THEN MIN_CHARGE[zone] ELSE rate_per_lb * weight_lbs

BaseCharge(zone, rate_per_lb, weight_lbs) ==
  Max(MIN_CHARGE[zone], rate_per_lb * weight_lbs)

OoaCharge(is_ooa, ooa_type, ooa_km) ==
  IF is_ooa /\ ooa_km > 0 THEN OOA_RATE[ooa_type] * ooa_km ELSE 0

\* The loop over ACCESSORIALS.items(): flags is the set of the names whose
\* entry in the flags dict is true.
RECURSIVE AccLoop(_, _)
AccLoop(i, flags) ==
  IF i > Len(AccessorialNames) THEN 0
  ELSE (IF AccessorialNames[i] \in flags THEN ACCESSORIALS[AccessorialNames[i]] ELSE 0)
       + AccLoop(i + 1, flags)

WaitCharge(wait_minutes) ==
  IF wait_minutes > 30
    THEN (WAIT_RATE_HR \div 4) * ceil_div(wait_minutes - 30, 15)
    ELSE 0

ExtraAmt(base, extra_stops) == base * Max(0, extra_stops)

\* Direct Drive left out of the fuelable subtotal.
DirectDriveFlat_none(flags) == 0

\* Every selected accessorial put into the fuelable subtotal.
DirectDriveFlat_all(flags) == AccLoop(1, flags)

DirectDriveFlat(flags) ==
  IF DirectDrive \in flags THEN ACCESSORIALS[DirectDrive] ELSE 0

Fuelable(base, ooa_charge, direct_drive_flat, extra_amt) ==
  base + ooa_charge + direct_drive_flat + extra_amt

\* The override taken without the floor at zero.
FuelPct_nofloor(apply_fuel, fuel_pct_override) ==
  IF apply_fuel
    THEN IF fuel_pct_override = << >>
           THEN FUEL_DEFAULT
           ELSE fuel_pct_override[1]
    ELSE 0

\* fuel_pct_override is << >> for None and <<p>> for the percent p.
FuelPct(apply_fuel, fuel_pct_override) ==
  IF apply_fuel
    THEN IF fuel_pct_override = << >>
           THEN FUEL_DEFAULT
           ELSE Max(0, fuel_pct_override[1])
    ELSE 0

\* fuelable * fuel_pct, fuel_pct in hundredths; the division is exact,
\* fuelable being a whole number of mills (100 units).
FuelAmt(fuelable, fuel_pct) == (fuelable \div 100) * fuel_pct

\* The fuel amount counted twice.
Total_fuel_twice(base, ooa_charge, acc, extra_amt, fuel_amt) ==
  base + ooa_charge + acc + extra_amt + fuel_amt + fuel_amt

Total(base, ooa_charge, acc, extra_amt, fuel_amt) ==
  base + ooa_charge + acc + extra_amt + fuel_amt

\* The accumulator reported as it is, wait charge included.
NonFuelAcc_withwait(acc, wait_charge) == acc

\* The "Accessorials (non-fuel)" line before rounding: the wait charge is
\* taken back out of the accumulator it was added to.
NonFuelAcc(acc, wait_charge) == acc - wait_charge

\* The local variables of calculate when it reaches its return statement.
Locals(a) ==
  LET zone == zone_from_km(a.distance_km)
      br == bracket_and_rate(a.weight_lbs, zone)
      base == BaseCharge(zone, br.rate, a.weight_lbs)
      ooa_charge == OoaCharge(a.is_ooa, a.ooa_type, a.ooa_km)
      wait_charge == WaitCharge(a.wait_minutes)
      acc == AccLoop(1, a.flags) + wait_charge
      extra_amt == ExtraAmt(base, a.extra_stops)
      direct_drive_flat == DirectDriveFlat(a.flags)
      fuelable == Fuelable(base, ooa_charge, direct_drive_flat, extra_amt)
      fuel_pct == FuelPct(a.apply_fuel, a.fuel_pct_override)
      fuel_amt == FuelAmt(fuelable, fuel_pct)
  IN  [zone |-> zone, bracket |-> br.name, rate_per_lb |-> br.rate,
       base |-> base, ooa_charge |-> ooa_charge, acc |-> acc,
       wait_charge |-> wait_charge, extra_amt |-> extra_amt,
       direct_drive_flat |-> direct_drive_flat, fuelable |-> fuelable,
       fuel_pct |-> fuel_pct, fuel_amt |-> fuel_amt,
       total |-> Total(base, ooa_charge, acc, extra_amt, fuel_amt)]

BreakdownFields ==
  {"Zone", "Weight Bracket", "Rate per lb", "Base LTL", "OOA charge",
   "Accessorials (non-fuel)", "Wait Time charge", "Extra Stops amount",
   "Fuelable Subtotal", "Fuel % used", "Fuel amount", "Grand Total"}

\* The dicts the return statement can build from the locals l.
Breakdowns(l) ==
  { ("Zone" :> l.zone) @@ ("Weight Bracket" :> l.bracket)
    @@ ("Rate per lb" :> l.rate_per_lb) @@ ("Base LTL" :> b)
    @@ ("OOA charge" :> o) @@ ("Accessorials (non-fuel)" :> a)
    @@ ("Wait Time charge" :> w) @@ ("Extra Stops amount" :> e)
    @@ ("Fuelable Subtotal" :> f) @@ ("Fuel % used" :> l.fuel_pct)
    @@ ("Fuel amount" :> fa) @@ ("Grand Total" :> t) :
      b \in Round2(l.base), o \in Round2(l.ooa_charge),
      a \in Round2(NonFuelAcc(l.acc, l.wait_charge)), w \in Round2(l.wait_charge),
      e \in Round2(l.extra_amt), f \in Round2(l.fuelable),
      fa \in Round2(l.fuel_amt), t \in Round2(l.total) }

ErrorResult ==
  [error |-> "Distance exceeds Zone 5 (500 km) supported by this tariff."]

-----------------------------------------------------------------------------
(* Actions: one call of calculate, by its two return paths *)

CalculateError ==
  /\ pc = "call"
  /\ zone_from_km(args.distance_km) = None
  /\ loc' = [zone |-> None]
  /\ res' = ErrorResult
  /\ pc' = "done"
  /\ UNCHANGED args

CalculatePrice ==
  /\ pc = "call"
  /\ zone_from_km(args.distance_km) # None
  /\ loc' = Locals(args)
  /\ res' \in Breakdowns(loc')
  /\ pc' = "done"
  /\ UNCHANGED args

Next == CalculateError \/ CalculatePrice

-----------------------------------------------------------------------------
(* Input domains *)

UnknownName == "Unknown Service"

AllNames == DOMAIN ACCESSORIALS \cup {UnknownName}

OoaTypes == DOMAIN OOA_RATE

Overrides == {<< >>} \cup {<<p>> : p \in {-5, 0, 12, MaxOverride}}

InitOver(D, W, O, OT, OK, F, WM, ES, AF, FO) ==
  /\ args \in [distance_km : D, weight_lbs : W, is_ooa : O, ooa_type : OT,
               ooa_km : OK, flags : F, wait_minutes : WM, extra_stops : ES,
               apply_fuel : AF, fuel_pct_override : FO]
  /\ pc = "call"
  /\ loc = << >>
  /\ res = << >>

\* Whole calls: every input varies over a few values.
Init ==
  InitOver({50 * KmUnit, 350 * KmUnit, 410 * KmUnit, 501 * KmUnit}, {20, 1005, 3200},
           BOOLEAN, OoaTypes, {0, 60},
           SUBSET {DirectDrive, "Tailgate (over 200 lbs)", "White Glove (residential)"},
           {0, 50}, (-1)..MaxExtra, BOOLEAN, Overrides)

\* Every distance from 0 to MaxKm in steps of 1/KmUnit kilometre.
InitZone ==
  InitOver(0..(MaxKm * KmUnit), {20, 3200}, BOOLEAN, {"FULL"}, {0, 60},
           {{}}, {0}, (-1)..1, BOOLEAN, {<< >>, <<-5>>})

\* Every weight from 0 to MaxWeight, in every zone.
InitRate ==
  InitOver({ZONES[z].hi * KmUnit : z \in 1..Len(ZONES)} \cup {501 * KmUnit}, 0..MaxWeight,
           {FALSE}, {"FULL"}, {0}, {{}}, {0}, {0, 1}, BOOLEAN, {<< >>})

\* Every wait time from 0 to MaxWait with every selection of accessorials.
InitWait ==
  InitOver({50 * KmUnit, 350 * KmUnit, 501 * KmUnit}, {3200}, {FALSE}, {"FULL"}, {0},
           SUBSET AllNames, 0..MaxWait, {0}, BOOLEAN, {<< >>})

Spec == Init /\ [][Next]_vars
SpecZone == InitZone /\ [][Next]_vars
SpecRate == InitRate /\ [][Next]_vars
SpecWait == InitWait /\ [][Next]_vars

-----------------------------------------------------------------------------
(* Properties *)

Done == pc = "done"

Priced == Done /\ "error" \notin DOMAIN res

\* The zones of the range table ZONES whose inclusive range lo..hi (whole
\* kilometres) contains the distance km (in 1/KmUnit kilometres).
ZonesContaining(km) ==
  {ZONES[i].zone : i \in {j \in 1..Len(ZONES) :
      ZONES[j].lo * KmUnit <= km /\ km <= ZONES[j].hi * KmUnit}}

\* C1 as stated: for every distance 0 <= d <= 500, whole or not, the
\* breakdown's Zone is the zone of the one range of the table 0-50, 51-150,
\* 151-300, 301-400, 401-500 that contains d.
C1_ZoneOfRangeTable ==
  (Done /\ args.distance_km >= 0 /\ args.distance_km <= 500 * KmUnit)
    => /\ "Zone" \in DOMAIN res
       /\ ZonesContaining(args.distance_km) = {res["Zone"]}

\* C1 amended: for every distance 0 <= d <= 500 the breakdown's Zone is the
\* first zone whose upper bound is >= d (zone z covers hi(z-1) < d <= hi(z)),
\* which is the zone of the range table whenever d is a whole number of
\* kilometres; d has exactly that one zone.
C1_ZoneByUpperBound ==
  (Done /\ args.distance_km >= 0 /\ args.distance_km <= 500 * KmUnit)
    => /\ "Zone" \in DOMAIN res
       /\ LET z == res["Zone"]
              d == args.distance_km
          IN  /\ z \in 1..Len(ZONES)
              /\ z = loc.zone
              /\ d <= ZONES[z].hi * KmUnit
              /\ z > 1 => d > ZONES[z - 1].hi * KmUnit
              /\ d % KmUnit = 0 => ZonesContaining(d) = {z}

C1_Witness ==
  /\ Priced
  /\ args.distance_km = 50 * KmUnit + 1
  /\ res["Zone"] = 2

\* C2: calculate returns the error exactly when distance > 500; the error
\* result carries nothing but the error and no price local was computed;
\* every other input (negative extra stops, negative override, out-of-area
\* flag with 0 km included) gets the full breakdown.
C2_ErrorIffBeyond500 ==
  Done =>
    /\ ("error" \in DOMAIN res) <=> (args.distance_km > 500 * KmUnit)
    /\ "error" \in DOMAIN res =>
         /\ DOMAIN res = {"error"}
         /\ DOMAIN loc = {"zone"}
         /\ loc.zone = None
    /\ "error" \notin DOMAIN res =>
         /\ DOMAIN res = BreakdownFields
         /\ res["Zone"] \in 1..5
         /\ res["Grand Total"] >= res["Base LTL"]

C2_Witness ==
  /\ Done
  /\ args.distance_km = 500 * KmUnit + 1
  /\ args.extra_stops < 0
  /\ args.fuel_pct_override = <<-5>>
  /\ DOMAIN res = {"error"}

\* Bracket i covers the weight w.
Covers(i, w) == RATES[i].upper = Inf \/ w <= RATES[i].upper

\* C3: the bracket used is the first one, in table order, whose upper bound
\* is >= weight, with its rate for the resolved zone; the bounds ascend; a
\* weight of exactly 500, 1000, 2000 or 4000 uses the lower bracket; every
\* non-negative weight has a bracket.
C3_FirstBracketAtOrAbove ==
  Priced =>
    LET w == args.weight_lbs
        i == CHOOSE k \in 1..Len(RATES) :
               Covers(k, w) /\ \A j \in 1..(k - 1) : ~Covers(j, w)
    IN  /\ \E k \in 1..Len(RATES) : Covers(k, w)
        /\ \A j \in 1..(Len(RATES) - 1) :
             /\ RATES[j].upper # Inf
             /\ RATES[j + 1].upper = Inf \/ RATES[j].upper < RATES[j + 1].upper
        /\ res["Weight Bracket"] = RATES[i].name
        /\ res["Rate per lb"] = RATES[i].zrates[res["Zone"]]
        /\ w = 500 => res["Weight Bracket"] = "0-500"
        /\ w = 1000 => res["Weight Bracket"] = "501-1000"
        /\ w = 2000 => res["Weight Bracket"] = "1001-2000"
        /\ w = 4000 => res["Weight Bracket"] = "2001-4000"
        /\ w = 501 => res["Weight Bracket"] = "501-1000"
        /\ w = 4001 => res["Weight Bracket"] = "4001+"

C3_Witness ==
  /\ Priced
  /\ args.weight_lbs = 4000
  /\ res["Zone"] = 4
  /\ res["Weight Bracket"] = "2001-4000"
  /\ res["Rate per lb"] = 64 * Mill

\* C4: base = max(MinimumCharge[zone], rate_per_lb * weight): never below
\* the zone's minimum, and above it whenever rate_per_lb * weight is.
C4_BaseIsFlooredByMinimum ==
  Priced =>
    LET m == MIN_CHARGE[res["Zone"]]
        p == res["Rate per lb"] * args.weight_lbs
    IN  /\ loc.base >= m
        /\ p <= m => loc.base = m
        /\ p > m => loc.base = p /\ loc.base > m
        /\ res["Base LTL"] \in Round2(loc.base)
        /\ res["Base LTL"] >= m

C4_Witness ==
  /\ Priced
  /\ args.weight_lbs = 20
  /\ res["Zone"] = 1
  /\ res["Rate per lb"] * args.weight_lbs < MIN_CHARGE[1]
  /\ res["Base LTL"] = 30 * Dollar

\* C5: the wait charge is 0 up to 30 minutes and otherwise a quarter of the
\* hourly rate times the least n with 15*n >= wait_minutes - 30: 11.25 for
\* 31..45 minutes, 22.50 for 46..60.
C5_WaitChargeByQuarterHours ==
  Priced =>
    LET wm == args.wait_minutes
        n == CHOOSE k \in 0..Max(wm, 0) :
               15 * k >= wm - 30 /\ \A j \in 0..(k - 1) : 15 * j < wm - 30
    IN  /\ wm <= 30 => loc.wait_charge = 0
        /\ wm > 30 => loc.wait_charge = (WAIT_RATE_HR \div 4) * n
        /\ wm \in 31..45 => loc.wait_charge = 1125 * Cent
        /\ wm \in 46..60 => loc.wait_charge = 2250 * Cent
        /\ res["Wait Time charge"] = loc.wait_charge

C5_Witness ==
  /\ Priced
  /\ args.wait_minutes = 46
  /\ res["Wait Time charge"] = 2250 * Cent

\* C6: the fuel fraction used is 0 with the fuel flag off, whatever the
\* override; 0.15 with the flag on and no override; max(0, override/100)
\* with the flag on and an override: negative gives 0, above 100 is not
\* capped, and an override of 0 gives a fuel amount of 0.
C6_FuelPercentRule ==
  Priced =>
    LET o == args.fuel_pct_override
    IN  /\ ~args.apply_fuel => loc.fuel_pct = 0 /\ loc.fuel_amt = 0
        /\ (args.apply_fuel /\ o = << >>) => loc.fuel_pct = 15
        /\ (args.apply_fuel /\ o # << >> /\ o[1] < 0) => loc.fuel_pct = 0
        /\ (args.apply_fuel /\ o # << >> /\ o[1] >= 0) => loc.fuel_pct = o[1]
        /\ (args.apply_fuel /\ o = <<0>>) =>
             loc.fuel_amt = 0 /\ res["Fuel amount"] = 0
        /\ res["Fuel % used"] = loc.fuel_pct

C6_Witness ==
  /\ Priced
  /\ args.apply_fuel
  /\ args.fuel_pct_override = <<-5>>
  /\ res["Fuel % used"] = 0
  /\ res["Fuel amount"] = 0

\* The same call with the accessorial k toggled.
Toggled(k) ==
  [args EXCEPT !.flags = IF k \in @ THEN @ \ {k} ELSE @ \cup {k}]

\* C7: of two calls that differ only in Direct Drive, the one with it has a
\* non-fuel accessorial line and a fuelable subtotal larger by the flat
\* 40.00, and a total larger by 40.00 plus fuel_pct * 40.00 (the reported
\* subtotal, being rounded, differs by 40.00 to within a cent); toggling any
\* other accessorial leaves the fuelable subtotal alone.
C7_DirectDriveRaisesBoth ==
  Priced =>
    LET other == Locals(Toggled(DirectDrive))
        on == IF DirectDrive \in args.flags THEN loc ELSE other
        off == IF DirectDrive \in args.flags THEN other ELSE loc
        flat == 40 * Dollar
    IN  /\ on.fuelable - off.fuelable = flat
        /\ NonFuelAcc(on.acc, on.wait_charge)
             - NonFuelAcc(off.acc, off.wait_charge) = flat
        /\ on.fuel_pct = off.fuel_pct
        /\ on.total - off.total = flat + (flat \div 100) * off.fuel_pct
        /\ \A a \in Round2(NonFuelAcc(other.acc, other.wait_charge)) :
             \/ a - res["Accessorials (non-fuel)"] = flat
             \/ res["Accessorials (non-fuel)"] - a = flat
        /\ \A f \in Round2(other.fuelable) :
             \/ f - res["Fuelable Subtotal"] \in (flat - Cent)..(flat + Cent)
             \/ res["Fuelable Subtotal"] - f \in (flat - Cent)..(flat + Cent)
        /\ \A k \in AllNames \ {DirectDrive} :
             Locals(Toggled(k)).fuelable = loc.fuelable

C7_Witness ==
  /\ Priced
  /\ DirectDrive \in args.flags
  /\ args.apply_fuel
  /\ args.fuel_pct_override = <<12>>
  /\ loc.direct_drive_flat = 40 * Dollar
  /\ loc.fuelable = Locals(Toggled(DirectDrive)).fuelable + 40 * Dollar

RECURSIVE SumCharges(_)
SumCharges(S) ==
  IF S = {} THEN 0
  ELSE LET k == CHOOSE x \in S : TRUE
       IN  ACCESSORIALS[k] + SumCharges(S \ {k})

\* The flat charges of the selected names that the accessorial table has.
FlatSelected(flags) == SumCharges(flags \cap DOMAIN ACCESSORIALS)

\* r is x rounded to a whole cent.
IsRounded(r, x) == r % Cent = 0 /\ 2 * (r - x) <= Cent /\ 2 * (x - r) <= Cent

Scenario350 ==
  [distance_km |-> 350 * KmUnit, weight_lbs |-> 3200, is_ooa |-> TRUE,
   ooa_type |-> "FULL", ooa_km |-> 60,
   flags |-> {"Tailgate (over 200 lbs)", "White Glove (residential)"},
   wait_minutes |-> 50, extra_stops |-> 1, apply_fuel |-> TRUE,
   fuel_pct_override |-> << >>]

\* C8: fuel_amount = fuelable * fuel_pct and grand_total = base + ooa +
\* (flat accessorials + wait) + extra + fuel_amount on unrounded values, the
\* fuel counted once, every reported amount being its unrounded value
\* rounded to the cent; the 350 km / 3200 lb scenario gives zone 4, base
\* 204.80, ooa 90.00, wait 22.50, accessorials 30.00, extra 204.80, fuelable
\* 499.60, fuel 74.94, total 627.04.
C8_TotalAndFuelOnUnrounded ==
  Priced =>
    /\ loc.fuelable % 100 = 0
    /\ loc.fuel_amt = (loc.fuelable \div 100) * loc.fuel_pct
    /\ loc.total = loc.base + loc.ooa_charge
                     + (FlatSelected(args.flags) + loc.wait_charge)
                     + loc.extra_amt + loc.fuel_amt
    /\ IsRounded(res["Base LTL"], loc.base)
    /\ IsRounded(res["OOA charge"], loc.ooa_charge)
    /\ IsRounded(res["Accessorials (non-fuel)"], FlatSelected(args.flags))
    /\ IsRounded(res["Wait Time charge"], loc.wait_charge)
    /\ IsRounded(res["Extra Stops amount"], loc.extra_amt)
    /\ IsRounded(res["Fuelable Subtotal"], loc.fuelable)
    /\ IsRounded(res["Fuel amount"], loc.fuel_amt)
    /\ IsRounded(res["Grand Total"], loc.total)
    /\ args = Scenario350 =>
         /\ res["Zone"] = 4
         /\ res["Weight Bracket"] = "2001-4000"
         /\ res["Rate per lb"] = 64 * Mill
         /\ res["Base LTL"] = 20480 * Cent
         /\ res["OOA charge"] = 9000 * Cent
         /\ res["Wait Time charge"] = 2250 * Cent
         /\ res["Accessorials (non-fuel)"] = 3000 * Cent
         /\ res["Extra Stops amount"] = 20480 * Cent
         /\ res["Fuelable Subtotal"] = 49960 * Cent
         /\ res["Fuel % used"] = 15
         /\ res["Fuel amount"] = 7494 * Cent
         /\ res["Grand Total"] = 62704 * Cent

C8_Witness ==
  /\ Priced
  /\ args = Scenario350
  /\ res["Fuel amount"] = 7494 * Cent
  /\ res["Grand Total"] = 62704 * Cent

\* The same call with another wait time.
Waiting(wm) == [args EXCEPT !.wait_minutes = wm]

\* C9: fuelable = base + ooa + (Direct Drive charge if selected) + extra,
\* with ooa = rate[type] * km only when the flag is set and km > 0 and
\* extra = base * max(0, extra stops); another wait time, or another
\* selection of any accessorial but Direct Drive, leaves the fuelable
\* subtotal and the fuel amount as they are.
C9_FuelableFrame ==
  Priced =>
    LET ooa == IF args.is_ooa /\ args.ooa_km > 0
                 THEN OOA_RATE[args.ooa_type] * args.ooa_km ELSE 0
        extra == IF args.extra_stops > 0
                   THEN loc.base * args.extra_stops ELSE 0
        dd == IF DirectDrive \in args.flags THEN 40 * Dollar ELSE 0
    IN  /\ loc.ooa_charge = ooa
        /\ loc.extra_amt = extra
        /\ loc.fuelable = loc.base + ooa + dd + extra
        /\ \A wm \in {0, 30, 31, 46, MaxWait} :
             /\ Locals(Waiting(wm)).fuelable = loc.fuelable
             /\ Locals(Waiting(wm)).fuel_amt = loc.fuel_amt
        /\ \A k \in AllNames \ {DirectDrive} :
             /\ Locals(Toggled(k)).fuelable = loc.fuelable
             /\ Locals(Toggled(k)).fuel_amt = loc.fuel_amt

C9_Witness ==
  /\ Priced
  /\ args.is_ooa /\ args.ooa_km = 60 /\ args.ooa_type = "BACKHAUL EMPTY"
  /\ args.wait_minutes = 50
  /\ args.extra_stops = 2
  /\ "Tailgate (over 200 lbs)" \in args.flags
  /\ DirectDrive \notin args.flags
  /\ loc.fuelable = 3 * loc.base + 4800 * Cent

\* C10: the reported non-fuel accessorials are the flat charges of exactly
\* the selected names of the accessorial table (unknown names add nothing,
\* Direct Drive counts), whatever the wait time; the wait charge is in the
\* accumulator but reported only on its own line.
C10_NonFuelAccessorialsExcludeWait ==
  Priced =>
    /\ res["Accessorials (non-fuel)"] = FlatSelected(args.flags)
    /\ res["Wait Time charge"] = loc.wait_charge
    /\ loc.acc = FlatSelected(args.flags) + loc.wait_charge
    /\ \A a \in Round2(NonFuelAcc(Locals(Waiting(0)).acc, 0)) :
         a = res["Accessorials (non-fuel)"]
    /\ UnknownName \in args.flags =>
         FlatSelected(args.flags) = FlatSelected(args.flags \ {UnknownName})

C10_Witness ==
  /\ Priced
  /\ args.wait_minutes = 50
  /\ args.flags = {UnknownName, DirectDrive, "Inside Delivery"}
  /\ res["Wait Time charge"] = 2250 * Cent
  /\ res["Accessorials (non-fuel)"] = 60 * Dollar

====
